---- MODULE Spec2Model ----
(* Locale registry of src/i18n/constants.ts: the static tables, the seven
   lookup helpers and the calls a client can make on them.  A JavaScript
   string is modelled as the sequence of its UTF-16 code units, so that
   template-literal formatting is concatenation and localeCompare is a
   comparison of characters. *)
EXTENDS Integers, Sequences, FiniteSets, TLC

(* ---- locale codes (string literals of the source) ---- *)
en == <<101, 110>>  \* 'en'
zh_CN == <<122, 104, 45, 67, 78>>  \* 'zh-CN'
zh_TW == <<122, 104, 45, 84, 87>>  \* 'zh-TW'
ja == <<106, 97>>  \* 'ja'
ko == <<107, 111>>  \* 'ko'
de == <<100, 101>>  \* 'de'
fr == <<102, 114>>  \* 'fr'
es == <<101, 115>>  \* 'es'
ru == <<114, 117>>  \* 'ru'
pt == <<112, 116>>  \* 'pt'

(* ---- strings a caller may pass that are not locale codes ---- *)
xx_unknown == <<120, 120, 45, 117, 110, 107, 110, 111, 119, 110>>  \* 'xx-unknown'
constructor == <<99, 111, 110, 115, 116, 114, 117, 99, 116, 111, 114>>  \* 'constructor'
toString == <<116, 111, 83, 116, 114, 105, 110, 103>>  \* 'toString'
proto == <<95, 95, 112, 114, 111, 116, 111, 95, 95>>  \* '__proto__'

(* Length bound of the generated argument strings. *)
MaxLen == 1

(* Characters of the generated argument strings: 'e', 'n'. *)
Alphabet == {101, 110}

(* ---- SUPPORTED_LOCALES as written in the source: code, native name,
   English name, flag (a pair of regional-indicator symbols, four code
   units) ---- *)
SUPPORTED_LOCALES_literal ==
  << [code |-> en,
      name |-> <<69, 110, 103, 108, 105, 115, 104>>,
      englishName |-> <<69, 110, 103, 108, 105, 115, 104>>,  \* 'English'
      flag |-> <<55356, 56826, 55356, 56824>>],
     [code |-> zh_CN,
      name |-> <<31616, 20307, 20013, 25991>>,
      englishName |-> <<83, 105, 109, 112, 108, 105, 102, 105, 101, 100, 32, 67, 104, 105, 110, 101, 115, 101>>,  \* 'Simplified Chinese'
      flag |-> <<55356, 56808, 55356, 56819>>],
     [code |-> zh_TW,
      name |-> <<32321, 39636, 20013, 25991>>,
      englishName |-> <<84, 114, 97, 100, 105, 116, 105, 111, 110, 97, 108, 32, 67, 104, 105, 110, 101, 115, 101>>,  \* 'Traditional Chinese'
      flag |-> <<55356, 56825, 55356, 56828>>],
     [code |-> ja,
      name |-> <<26085, 26412, 35486>>,
      englishName |-> <<74, 97, 112, 97, 110, 101, 115, 101>>,  \* 'Japanese'
      flag |-> <<55356, 56815, 55356, 56821>>],
     [code |-> ko,
      name |-> <<54620, 44397, 50612>>,
      englishName |-> <<75, 111, 114, 101, 97, 110>>,  \* 'Korean'
      flag |-> <<55356, 56816, 55356, 56823>>],
     [code |-> de,
      name |-> <<68, 101, 117, 116, 115, 99, 104>>,
      englishName |-> <<71, 101, 114, 109, 97, 110>>,  \* 'German'
      flag |-> <<55356, 56809, 55356, 56810>>],
     [code |-> fr,
      name |-> <<70, 114, 97, 110, 231, 97, 105, 115>>,
      englishName |-> <<70, 114, 101, 110, 99, 104>>,  \* 'French'
      flag |-> <<55356, 56811, 55356, 56823>>],
     [code |-> es,
      name |-> <<69, 115, 112, 97, 241, 111, 108>>,
      englishName |-> <<83, 112, 97, 110, 105, 115, 104>>,  \* 'Spanish'
      flag |-> <<55356, 56810, 55356, 56824>>],
     [code |-> ru,
      name |-> <<1056, 1091, 1089, 1089, 1082, 1080, 1081>>,
      englishName |-> <<82, 117, 115, 115, 105, 97, 110>>,  \* 'Russian'
      flag |-> <<55356, 56823, 55356, 56826>>],
     [code |-> pt,
      name |-> <<80, 111, 114, 116, 117, 103, 117, 234, 115>>,
      englishName |-> <<80, 111, 114, 116, 117, 103, 117, 101, 115, 101>>,  \* 'Portuguese'
      flag |-> <<55356, 56807, 55356, 56823>>] >>

\* 'ui-sans-serif, system-ui, -apple-system, BlinkMacSystemFont'
Font_latin ==
  <<117, 105, 45, 115, 97, 110, 115, 45, 115, 101, 114, 105, 102, 44, 32, 115,
  121, 115, 116, 101, 109, 45, 117, 105, 44, 32, 45, 97, 112, 112, 108, 101,
  45, 115, 121, 115, 116, 101, 109, 44, 32, 66, 108, 105, 110, 107, 77, 97,
  99, 83, 121, 115, 116, 101, 109, 70, 111, 110, 116>>

\* 'system-ui, -apple-system, "Microsoft YaHei", "PingFang SC", sans-serif'
Font_zh_CN ==
  <<115, 121, 115, 116, 101, 109, 45, 117, 105, 44, 32, 45, 97, 112, 112, 108,
  101, 45, 115, 121, 115, 116, 101, 109, 44, 32, 34, 77, 105, 99, 114, 111,
  115, 111, 102, 116, 32, 89, 97, 72, 101, 105, 34, 44, 32, 34, 80, 105,
  110, 103, 70, 97, 110, 103, 32, 83, 67, 34, 44, 32, 115, 97, 110, 115, 45,
  115, 101, 114, 105, 102>>

\* 'system-ui, -apple-system, "Microsoft JhengHei", "PingFang TC", sans-serif'
Font_zh_TW ==
  <<115, 121, 115, 116, 101, 109, 45, 117, 105, 44, 32, 45, 97, 112, 112, 108,
  101, 45, 115, 121, 115, 116, 101, 109, 44, 32, 34, 77, 105, 99, 114, 111,
  115, 111, 102, 116, 32, 74, 104, 101, 110, 103, 72, 101, 105, 34, 44, 32,
  34, 80, 105, 110, 103, 70, 97, 110, 103, 32, 84, 67, 34, 44, 32, 115, 97,
  110, 115, 45, 115, 101, 114, 105, 102>>

\* 'system-ui, -apple-system, "Hiragino Sans", "Yu Gothic", sans-serif'
Font_ja ==
  <<115, 121, 115, 116, 101, 109, 45, 117, 105, 44, 32, 45, 97, 112, 112, 108,
  101, 45, 115, 121, 115, 116, 101, 109, 44, 32, 34, 72, 105, 114, 97, 103,
  105, 110, 111, 32, 83, 97, 110, 115, 34, 44, 32, 34, 89, 117, 32, 71, 111,
  116, 104, 105, 99, 34, 44, 32, 115, 97, 110, 115, 45, 115, 101, 114, 105,
  102>>

\* 'system-ui, -apple-system, "Apple SD Gothic Neo", "Noto Sans KR", sans-serif'
Font_ko ==
  <<115, 121, 115, 116, 101, 109, 45, 117, 105, 44, 32, 45, 97, 112, 112, 108,
  101, 45, 115, 121, 115, 116, 101, 109, 44, 32, 34, 65, 112, 112, 108, 101,
  32, 83, 68, 32, 71, 111, 116, 104, 105, 99, 32, 78, 101, 111, 34, 44, 32,
  34, 78, 111, 116, 111, 32, 83, 97, 110, 115, 32, 75, 82, 34, 44, 32, 115,
  97, 110, 115, 45, 115, 101, 114, 105, 102>>

\* 'PingFang SC'
PingFangSC == <<80, 105, 110, 103, 70, 97, 110, 103, 32, 83, 67>>

ObjectPrototypeKeys ==
  { <<99, 111, 110, 115, 116, 114, 117, 99, 116, 111, 114>>,
    <<116, 111, 83, 116, 114, 105, 110, 103>>,
    <<118, 97, 108, 117, 101, 79, 102>>,
    <<104, 97, 115, 79, 119, 110, 80, 114, 111, 112, 101, 114, 116, 121>>,
    <<105, 115, 80, 114, 111, 116, 111, 116, 121, 112, 101, 79, 102>>,
    <<112, 114, 111, 112, 101, 114, 116, 121, 73, 115, 69, 110, 117, 109, 101, 114, 97, 98, 108, 101>>,
    <<116, 111, 76, 111, 99, 97, 108, 101, 83, 116, 114, 105, 110, 103>>,
    <<95, 95, 112, 114, 111, 116, 111, 95, 95>>,
    <<95, 95, 100, 101, 102, 105, 110, 101, 71, 101, 116, 116, 101, 114, 95, 95>>,
    <<95, 95, 100, 101, 102, 105, 110, 101, 83, 101, 116, 116, 101, 114, 95, 95>>,
    <<95, 95, 108, 111, 111, 107, 117, 112, 71, 101, 116, 116, 101, 114, 95, 95>>,
    <<95, 95, 108, 111, 111, 107, 117, 112, 83, 101, 116, 116, 101, 114, 95, 95>> }

(* DEFAULT_LOCALE *)
DEFAULT_LOCALE == en

(* A family table that names a code the registry does not have ('it'). *)
LANGUAGE_FAMILIES_stray ==
  [GERMANIC |-> <<en, de>>,
   ROMANCE |-> <<fr, es, <<105, 116>>, pt>>,
   SLAVIC |-> <<ru>>,
   ASIAN |-> <<zh_CN, zh_TW, ja, ko>>]

(* ---- LANGUAGE_FAMILIES, LOCALE_REGIONS as written in the source ---- *)
LANGUAGE_FAMILIES_literal ==
  [GERMANIC |-> <<en, de>>,
   ROMANCE |-> <<fr, es, pt>>,
   SLAVIC |-> <<ru>>,
   ASIAN |-> <<zh_CN, zh_TW, ja, ko>>]

LOCALE_REGIONS_literal ==
  (en :> "AMERICA") @@ (zh_CN :> "ASIA") @@ (zh_TW :> "ASIA") @@
  (ja :> "ASIA") @@ (ko :> "ASIA") @@ (de :> "EUROPE") @@
  (fr :> "EUROPE") @@ (es :> "AMERICA") @@ (ru :> "EUROPE") @@
  (pt :> "AMERICA")

(* ---- LOCALE_GROUPS: ALL is computed from the registry at module load ---- *)
LOCALE_GROUPS_literal ==
  [ALL |-> [i \in 1..Len(SUPPORTED_LOCALES_literal) |->
              SUPPORTED_LOCALES_literal[i].code],
   ASIAN |-> <<zh_CN, zh_TW, ja, ko>>,
   EUROPEAN |-> <<de, fr, ru, pt>>,
   ENGLISH_BASED |-> <<en>>,
   SPANISH_PORTUGUESE |-> <<es, pt>>]

(* Own string keys of LOCALE_GROUPS in the order Object.entries visits
   them: insertion order. *)
LOCALE_GROUPS_keys ==
  <<"ALL", "ASIAN", "EUROPEAN", "ENGLISH_BASED", "SPANISH_PORTUGUESE">>

(* ---- state ---- *)
VARIABLES
  SUPPORTED_LOCALES,   \* the registry array (a mutable JavaScript array)
  LANGUAGE_FAMILIES,   \* family table
  LOCALE_REGIONS,      \* region table
  LOCALE_GROUPS,       \* batch-group table
  call,                \* the last call made: operation, arguments, result
  kept                 \* an earlier call, remembered for comparison

vars ==
  <<SUPPORTED_LOCALES, LANGUAGE_FAMILIES, LOCALE_REGIONS, LOCALE_GROUPS,
    call, kept>>

(* ---- JavaScript values returned by the helpers ---- *)
Undefined == [t |-> "undefined"]

Str(s) == [t |-> "string", v |-> s]

Bool(b) == [t |-> "boolean", v |-> b]

Obj(r) == [t |-> "object", v |-> r]

Arr(a) == [t |-> "array", v |-> a]

(* A property found on Object.prototype: a built-in function, or for
   '__proto__' the prototype object itself. *)
Inherited(k) == [t |-> IF k = proto THEN "object" ELSE "function", key |-> k]

(* ToBoolean, as applied by || and && *)
Truthy(x) ==
  /\ x.t # "undefined"
  /\ ~(x.t = "string" /\ x.v = <<>>)
  /\ ~(x.t = "boolean" /\ x.v = FALSE)

(* Array.prototype.includes on an array of strings *)
Includes(arr, x) == \E i \in 1..Len(arr) : arr[i] = x

(* ---- getLocaleInfo: Array.prototype.find, first match on code ---- *)
getLocaleInfo(code) ==
  LET hits == {i \in 1..Len(SUPPORTED_LOCALES) :
                 SUPPORTED_LOCALES[i].code = code}
  IN  IF hits = {} THEN Undefined
      ELSE Obj(SUPPORTED_LOCALES[CHOOSE i \in hits : \A j \in hits : i <= j])

(* includeFlag = true when the argument is omitted *)
IncludeFlagDefault(a) == IF a = "omitted" THEN TRUE ELSE a = "true"

(* info.flag is present and a non-empty string *)
FlagTruthy(info) == "flag" \in DOMAIN info /\ Truthy(Str(info.flag))

(* A formatter that puts the flag whatever includeFlag says. *)
getLocaleDisplayStringAlwaysFlag(code, includeFlagArg) ==
  LET hits == {i \in 1..Len(SUPPORTED_LOCALES) :
                 SUPPORTED_LOCALES[i].code = code}
      info == SUPPORTED_LOCALES[CHOOSE i \in hits : \A j \in hits : i <= j]
  IN  IF hits = {} THEN [t |-> "string", v |-> code]
      ELSE [t |-> "string",
            v |-> info.flag \o <<32>> \o info.name \o <<32, 40>>
                    \o info.englishName \o <<41>>]

(* ---- getLocaleDisplayString ---- *)
getLocaleDisplayString(code, includeFlagArg) ==
  LET info == getLocaleInfo(code)
      includeFlag == IncludeFlagDefault(includeFlagArg)
  IN  IF ~Truthy(info) THEN Str(code)
      ELSE IF includeFlag /\ FlagTruthy(info.v)
           THEN Str(info.v.flag \o <<32>> \o info.v.name \o <<32, 40>>
                    \o info.v.englishName \o <<41>>)
           ELSE Str(info.v.name \o <<32, 40>> \o info.v.englishName \o <<41>>)

(* ---- String.prototype.localeCompare on names made of ASCII letters and
   spaces: first the letters regardless of case (a space sorts before
   every letter, a prefix before its extensions), then, for names equal
   up to case, lower case before upper case at the first difference ---- *)
PrimaryWeight(c) ==
  CASE c = 32 -> 0
    [] c \in 65..90 -> c - 64
    [] c \in 97..122 -> c - 96

CaseWeight(c) == IF c \in 65..90 THEN 1 ELSE 0

RECURSIVE ComparePrimary(_, _)
ComparePrimary(a, b) ==
  IF a = <<>> /\ b = <<>> THEN 0
  ELSE IF a = <<>> THEN -1
  ELSE IF b = <<>> THEN 1
  ELSE IF PrimaryWeight(Head(a)) < PrimaryWeight(Head(b)) THEN -1
  ELSE IF PrimaryWeight(Head(a)) > PrimaryWeight(Head(b)) THEN 1
  ELSE ComparePrimary(Tail(a), Tail(b))

RECURSIVE CompareCase(_, _)
CompareCase(a, b) ==
  IF a = <<>> \/ b = <<>> THEN 0
  ELSE IF CaseWeight(Head(a)) < CaseWeight(Head(b)) THEN -1
  ELSE IF CaseWeight(Head(a)) > CaseWeight(Head(b)) THEN 1
  ELSE CompareCase(Tail(a), Tail(b))

localeCompare(a, b) ==
  LET p == ComparePrimary(a, b)
  IN  IF p # 0 THEN p ELSE CompareCase(a, b)

(* A comparator with its operands exchanged: descending order. *)
compareFnDescending(a, b) ==
  LET p == ComparePrimary(b.englishName, a.englishName)
  IN  IF p # 0 THEN p ELSE CompareCase(b.englishName, a.englishName)

(* The comparator passed to sort *)
compareFn(a, b) == localeCompare(a.englishName, b.englishName)

(* ---- Array.prototype.sort: a stable sort by compareFn.  Each element is
   inserted after the already placed elements that do not compare
   greater than it. ---- *)
RECURSIVE InsertSorted(_, _)
InsertSorted(x, s) ==
  IF s = <<>> THEN <<x>>
  ELSE IF compareFn(x, Head(s)) < 0 THEN <<x>> \o s
  ELSE <<Head(s)>> \o InsertSorted(x, Tail(s))

RECURSIVE ArraySort(_)
ArraySort(arr) ==
  IF arr = <<>> THEN <<>>
  ELSE InsertSorted(arr[Len(arr)], ArraySort(SubSeq(arr, 1, Len(arr) - 1)))

(* Sorting the registry itself, without the copy. *)
SortReceiverRegistry == "registry"

(* The array that sort is applied to, and so sorts in place: the spread
   [...SUPPORTED_LOCALES] is a new array, not the registry. *)
SortReceiver == "copy"

(* ---- getLocalesForDropdown ---- *)
getLocalesForDropdown == Arr(ArraySort(SUPPORTED_LOCALES))

(* A validity test by Array.prototype.every instead of some. *)
isValidLocaleCodeEvery(code) ==
  [t |-> "boolean",
   v |-> \A i \in 1..Len(SUPPORTED_LOCALES) :
           SUPPORTED_LOCALES[i].code = code]

(* ---- isValidLocaleCode: Array.prototype.some ---- *)
isValidLocaleCode(code) ==
  Bool(\E i \in 1..Len(SUPPORTED_LOCALES) : SUPPORTED_LOCALES[i].code = code)

(* ---- isRTL ---- *)
rtlLocales == <<>>

(* A direction test with the membership test negated. *)
isRTLNegated(locale) ==
  [t |-> "boolean", v |-> ~(\E i \in 1..Len(rtlLocales) : rtlLocales[i] = locale)]

isRTL(locale) == Bool(Includes(rtlLocales, locale))

(* A font table without an entry for 'pt'. *)
fontMapWithoutPt ==
  (en :> Font_latin) @@ (zh_CN :> Font_zh_CN) @@ (zh_TW :> Font_zh_TW) @@
  (ja :> Font_ja) @@ (ko :> Font_ko) @@ (de :> Font_latin) @@
  (fr :> Font_latin) @@ (es :> Font_latin) @@ (ru :> Font_latin)

(* ---- getFontFamily ---- *)
fontMap ==
  (en :> Font_latin) @@ (zh_CN :> Font_zh_CN) @@ (zh_TW :> Font_zh_TW) @@
  (ja :> Font_ja) @@ (ko :> Font_ko) @@ (de :> Font_latin) @@
  (fr :> Font_latin) @@ (es :> Font_latin) @@ (ru :> Font_latin) @@
  (pt :> Font_latin)

(* fontMap[key]: the object literal's own property, else the property
   the literal inherits from Object.prototype, else undefined. *)
PropertyGet(obj, key) ==
  IF key \in DOMAIN obj THEN Str(obj[key])
  ELSE IF key \in ObjectPrototypeKeys THEN Inherited(key)
  ELSE Undefined

getFontFamily(locale) ==
  LET found == PropertyGet(fontMap, locale)
  IN  IF Truthy(found) THEN found ELSE PropertyGet(fontMap, en)

(* The buckets visited from the last declared to the first. *)
ObjectEntriesReversed(groups) ==
  [i \in 1..Len(LOCALE_GROUPS_keys) |->
     groups[LOCALE_GROUPS_keys[Len(LOCALE_GROUPS_keys) + 1 - i]]]

(* ---- getLocaleGroup: the buckets in Object.entries order, the first one
   that includes the locale, else a new one-element array ---- *)
ObjectEntries(groups) ==
  [i \in 1..Len(LOCALE_GROUPS_keys) |-> groups[LOCALE_GROUPS_keys[i]]]

getLocaleGroup(locale) ==
  LET entries == ObjectEntries(LOCALE_GROUPS)
      hits == {i \in 1..Len(entries) : Includes(entries[i], locale)}
  IN  IF hits = {} THEN Arr(<<locale>>)
      ELSE Arr(entries[CHOOSE i \in hits : \A j \in hits : i <= j])

(* ---- arguments of the calls ---- *)
RegistryCodes == {en, zh_CN, zh_TW, ja, ko, de, fr, es, ru, pt}

GeneratedStrings == UNION {[1..n -> Alphabet] : n \in 0..MaxLen}

ArgStrings ==
  RegistryCodes \cup {xx_unknown, constructor, toString, proto}
    \cup GeneratedStrings

IncludeFlagArgs == {"omitted", "true", "false"}

NoCall == [op |-> "load", arg |-> <<>>, flag |-> "omitted", ret |-> Undefined]

(* ---- module load ---- *)
Init ==
  /\ SUPPORTED_LOCALES = SUPPORTED_LOCALES_literal
  /\ LANGUAGE_FAMILIES = LANGUAGE_FAMILIES_literal
  /\ LOCALE_REGIONS = LOCALE_REGIONS_literal
  /\ LOCALE_GROUPS = LOCALE_GROUPS_literal
  /\ call = NoCall
  /\ kept = NoCall

(* A call returns. *)
Return(c) == call' = c /\ UNCHANGED kept

CallGetLocaleInfo ==
  \E code \in ArgStrings :
    /\ Return([op |-> "getLocaleInfo", arg |-> code, flag |-> "omitted",
               ret |-> getLocaleInfo(code)])
    /\ UNCHANGED <<SUPPORTED_LOCALES, LANGUAGE_FAMILIES, LOCALE_REGIONS,
                   LOCALE_GROUPS>>

CallGetLocaleDisplayString ==
  \E code \in ArgStrings, f \in IncludeFlagArgs :
    /\ Return([op |-> "getLocaleDisplayString", arg |-> code, flag |-> f,
               ret |-> getLocaleDisplayString(code, f)])
    /\ UNCHANGED <<SUPPORTED_LOCALES, LANGUAGE_FAMILIES, LOCALE_REGIONS,
                   LOCALE_GROUPS>>

CallGetLocalesForDropdown ==
  /\ Return([op |-> "getLocalesForDropdown", arg |-> <<>>,
             flag |-> "omitted", ret |-> getLocalesForDropdown])
  /\ SUPPORTED_LOCALES' =
       IF SortReceiver = "copy" THEN SUPPORTED_LOCALES
       ELSE ArraySort(SUPPORTED_LOCALES)
  /\ UNCHANGED <<LANGUAGE_FAMILIES, LOCALE_REGIONS, LOCALE_GROUPS>>

CallIsValidLocaleCode ==
  \E code \in ArgStrings :
    /\ Return([op |-> "isValidLocaleCode", arg |-> code, flag |-> "omitted",
               ret |-> isValidLocaleCode(code)])
    /\ UNCHANGED <<SUPPORTED_LOCALES, LANGUAGE_FAMILIES, LOCALE_REGIONS,
                   LOCALE_GROUPS>>

CallIsRTL ==
  \E locale \in ArgStrings :
    /\ Return([op |-> "isRTL", arg |-> locale, flag |-> "omitted",
               ret |-> isRTL(locale)])
    /\ UNCHANGED <<SUPPORTED_LOCALES, LANGUAGE_FAMILIES, LOCALE_REGIONS,
                   LOCALE_GROUPS>>

CallGetFontFamily ==
  \E locale \in ArgStrings :
    /\ Return([op |-> "getFontFamily", arg |-> locale, flag |-> "omitted",
               ret |-> getFontFamily(locale)])
    /\ UNCHANGED <<SUPPORTED_LOCALES, LANGUAGE_FAMILIES, LOCALE_REGIONS,
                   LOCALE_GROUPS>>

CallGetLocaleGroup ==
  \E locale \in ArgStrings :
    /\ Return([op |-> "getLocaleGroup", arg |-> locale, flag |-> "omitted",
               ret |-> getLocaleGroup(locale)])
    /\ UNCHANGED <<SUPPORTED_LOCALES, LANGUAGE_FAMILIES, LOCALE_REGIONS,
                   LOCALE_GROUPS>>

Next ==
  \/ CallGetLocaleInfo
  \/ CallGetLocaleDisplayString
  \/ CallGetLocalesForDropdown
  \/ CallIsValidLocaleCode
  \/ CallIsRTL
  \/ CallGetFontFamily
  \/ CallGetLocaleGroup

Spec == Init /\ [][Next]_vars

(* A client keeps the result of one call, to compare later results with. *)
Remember ==
  /\ kept = NoCall
  /\ call # NoCall
  /\ kept' = call
  /\ UNCHANGED <<SUPPORTED_LOCALES, LANGUAGE_FAMILIES, LOCALE_REGIONS,
                 LOCALE_GROUPS, call>>

NextHistory == Next \/ Remember

SpecHistory == Init /\ [][NextHistory]_vars

(* ================= properties ================= *)

(* C1: getLocaleGroup('ja') returns the Asian bucket, whose members are
   exactly 'zh-CN', 'zh-TW', 'ja', 'ko'; getLocaleGroup('xx-unknown')
   returns the one-element sequence ['xx-unknown']. *)
C1_JaInAsianBucket ==
  /\ (call.op = "getLocaleGroup" /\ call.arg = ja)
       => call.ret = Arr(<<zh_CN, zh_TW, ja, ko>>)
  /\ (call.op = "getLocaleGroup" /\ call.arg = xx_unknown)
       => call.ret = Arr(<<xx_unknown>>)

(* C2: getLocaleGroup(code) returns the first bucket, in the declaration
   order ALL, ASIAN, EUROPEAN, ENGLISH_BASED, SPANISH_PORTUGUESE, whose
   members contain code; if no bucket contains it, the singleton [code]. *)
C2_FirstDeclaredBucket ==
  call.op = "getLocaleGroup" =>
    LET order == <<"ALL", "ASIAN", "EUROPEAN", "ENGLISH_BASED",
                   "SPANISH_PORTUGUESE">>
        has(i) == \E k \in 1..Len(LOCALE_GROUPS[order[i]]) :
                    LOCALE_GROUPS[order[i]][k] = call.arg
    IN  IF \E i \in 1..5 : has(i)
        THEN \E i \in 1..5 :
               /\ has(i)
               /\ \A j \in 1..(i - 1) : ~has(j)
               /\ call.ret = Arr(LOCALE_GROUPS[order[i]])
        ELSE call.ret = Arr(<<call.arg>>)

(* 'pt', a member of ALL, EUROPEAN and SPANISH_PORTUGUESE, was looked up
   and resolved to ALL. *)
C2_Witness ==
  /\ call.op = "getLocaleGroup"
  /\ call.arg = pt
  /\ call.ret = Arr(<<en, zh_CN, zh_TW, ja, ko, de, fr, es, ru, pt>>)

(* C3: getLocalesForDropdown() returns a permutation of SUPPORTED_LOCALES
   (same records, same length, none added, dropped or duplicated) in
   which every adjacent pair is in ascending englishName order. *)
C3_DropdownSortedPermutation ==
  call.op = "getLocalesForDropdown" =>
    LET r == call.ret.v
        count(seq, x) == Cardinality({i \in 1..Len(seq) : seq[i] = x})
    IN  /\ call.ret.t = "array"
        /\ Len(r) = Len(SUPPORTED_LOCALES)
        /\ \A i \in 1..Len(SUPPORTED_LOCALES) :
             count(r, SUPPORTED_LOCALES[i])
               = count(SUPPORTED_LOCALES, SUPPORTED_LOCALES[i])
        /\ \A i \in 1..(Len(r) - 1) :
             localeCompare(r[i].englishName, r[i + 1].englishName) <= 0

(* The dropdown list was produced: English, French, German, Japanese,
   Korean, Portuguese, Russian, Simplified Chinese, Spanish, Traditional
   Chinese. *)
C3_Witness ==
  /\ call.op = "getLocalesForDropdown"
  /\ [i \in 1..Len(call.ret.v) |-> call.ret.v[i].code]
       = <<en, fr, de, ja, ko, pt, ru, zh_CN, es, zh_TW>>

(* C4: after any sequence of calls of the seven helpers the registry
   (contents and order) and the three grouping tables equal their values
   at module load, and a call with the same operation and arguments as an
   earlier call returns an equal result. *)
C4_TablesNeverChange ==
  /\ SUPPORTED_LOCALES = SUPPORTED_LOCALES_literal
  /\ LANGUAGE_FAMILIES = LANGUAGE_FAMILIES_literal
  /\ LOCALE_REGIONS = LOCALE_REGIONS_literal
  /\ LOCALE_GROUPS = LOCALE_GROUPS_literal
  /\ (kept.op = call.op /\ kept.arg = call.arg /\ kept.flag = call.flag)
       => kept.ret = call.ret

(* getLocalesForDropdown was called, its result kept, another helper
   called, and getLocalesForDropdown called again. *)
C4_Witness ==
  /\ kept.op = "getLocalesForDropdown"
  /\ call.op = "getLocalesForDropdown"
  /\ SUPPORTED_LOCALES[1].code = en
  /\ call.ret.v[1].code = en
  /\ call.ret.v[2].code = fr

(* C5: codes are unique in the registry; getLocaleInfo(c) returns the
   record whose code is c and isValidLocaleCode(c) is true for a code of
   the registry; getLocaleInfo(c) is undefined and isValidLocaleCode(c)
   false for any other string. *)
C5_LookupAgreesWithMembership ==
  LET known == \E i \in 1..Len(SUPPORTED_LOCALES) :
                 SUPPORTED_LOCALES[i].code = call.arg
  IN  /\ \A i, j \in 1..Len(SUPPORTED_LOCALES) :
           SUPPORTED_LOCALES[i].code = SUPPORTED_LOCALES[j].code => i = j
      /\ (call.op = "getLocaleInfo" /\ known) =>
           /\ call.ret.t = "object"
           /\ call.ret.v.code = call.arg
           /\ \E i \in 1..Len(SUPPORTED_LOCALES) :
                SUPPORTED_LOCALES[i] = call.ret.v
      /\ (call.op = "getLocaleInfo" /\ ~known) => call.ret.t = "undefined"
      /\ call.op = "isValidLocaleCode" =>
           (call.ret.t = "boolean" /\ call.ret.v = known)

(* A code of the registry was validated and found valid. *)
C5_Witness ==
  /\ call.op = "isValidLocaleCode"
  /\ call.arg = zh_TW
  /\ call.ret.t = "boolean"
  /\ call.ret.v = TRUE

(* C6: getLocaleDisplayString(code, includeFlag) is "flag name
   (englishName)" for a registry code when includeFlag is true (or
   omitted) and the record has a non-empty flag, "name (englishName)"
   when includeFlag is false or there is no flag, and the input code
   unchanged for a code outside the registry; the two strings for 'ja'. *)
C6_DisplayString ==
  call.op = "getLocaleDisplayString" =>
    LET hits == {i \in 1..Len(SUPPORTED_LOCALES) :
                   SUPPORTED_LOCALES[i].code = call.arg}
        withFlag == call.flag # "false"
        plain(r) == r.name \o <<32, 40>> \o r.englishName \o <<41>>
    IN  /\ call.ret.t = "string"
        /\ hits = {} => call.ret.v = call.arg
        /\ \A i \in hits :
             LET r == SUPPORTED_LOCALES[i]
             IN  IF withFlag /\ "flag" \in DOMAIN r /\ r.flag # <<>>
                 THEN call.ret.v = r.flag \o <<32>> \o plain(r)
                 ELSE call.ret.v = plain(r)
        /\ (call.arg = ja /\ withFlag) =>
             call.ret.v = <<55356, 56815, 55356, 56821, 32, 26085, 26412,
                            35486, 32, 40, 74, 97, 112, 97, 110, 101, 115,
                            101, 41>>
        /\ (call.arg = ja /\ ~withFlag) =>
             call.ret.v = <<26085, 26412, 35486, 32, 40, 74, 97, 112, 97,
                            110, 101, 115, 101, 41>>

(* The display string of 'ja' was asked for without the flag. *)
C6_Witness ==
  /\ call.op = "getLocaleDisplayString"
  /\ call.arg = ja
  /\ call.flag = "false"
  /\ call.ret.v = <<26085, 26412, 35486, 32, 40, 74, 97, 112, 97, 110, 101,
                    115, 101, 41>>

(* C7: getFontFamily returns a non-empty font-stack string for every
   input; for every input without an entry in the font table the result
   is getFontFamily(DEFAULT_LOCALE), DEFAULT_LOCALE being a code of the
   registry; getFontFamily('zh-CN') contains "PingFang SC". *)
C7_FontFamilyTotal ==
  /\ \E i \in 1..Len(SUPPORTED_LOCALES) :
       SUPPORTED_LOCALES[i].code = DEFAULT_LOCALE
  /\ call.op = "getFontFamily" =>
       /\ call.ret.t = "string"
       /\ call.ret.v # <<>>
       /\ call.arg \notin DOMAIN fontMap =>
            call.ret = getFontFamily(DEFAULT_LOCALE)
       /\ call.arg = zh_CN =>
            \E k \in 0..(Len(call.ret.v) - Len(PingFangSC)) :
              SubSeq(call.ret.v, k + 1, k + Len(PingFangSC)) = PingFangSC

(* C8: every code in a bucket of LANGUAGE_FAMILIES, a key of
   LOCALE_REGIONS or in a bucket of LOCALE_GROUPS is the code of a record
   of SUPPORTED_LOCALES. *)
C8_ReferentialIntegrity ==
  LET codes == {SUPPORTED_LOCALES[i].code : i \in 1..Len(SUPPORTED_LOCALES)}
  IN  /\ \A f \in DOMAIN LANGUAGE_FAMILIES :
           \A k \in 1..Len(LANGUAGE_FAMILIES[f]) :
             LANGUAGE_FAMILIES[f][k] \in codes
      /\ DOMAIN LOCALE_REGIONS \subseteq codes
      /\ \A g \in DOMAIN LOCALE_GROUPS :
           \A k \in 1..Len(LOCALE_GROUPS[g]) : LOCALE_GROUPS[g][k] \in codes

(* The tables are loaded, 'pt' is in a family, a region and two groups,
   and the registry has found it. *)
C8_Witness ==
  /\ call.op = "getLocaleInfo"
  /\ call.arg = pt
  /\ call.ret.t = "object"
  /\ LANGUAGE_FAMILIES.ROMANCE[3] = pt
  /\ pt \in DOMAIN LOCALE_REGIONS
  /\ LOCALE_GROUPS.EUROPEAN[4] = pt
  /\ LOCALE_GROUPS.SPANISH_PORTUGUESE[2] = pt

(* C9: isRTL(code) is false for every code of SUPPORTED_LOCALES. *)
C9_NoSupportedLocaleIsRTL ==
  (/\ call.op = "isRTL"
   /\ \E i \in 1..Len(SUPPORTED_LOCALES) :
        SUPPORTED_LOCALES[i].code = call.arg)
    => (call.ret.t = "boolean" /\ call.ret.v = FALSE)

(* isRTL was asked about 'ko'. *)
C9_Witness ==
  /\ call.op = "isRTL"
  /\ call.arg = ko
  /\ call.ret.v = FALSE

(* C10: every code of SUPPORTED_LOCALES is in exactly one bucket of
   LANGUAGE_FAMILIES, is a key of LOCALE_REGIONS and has its own entry in
   the font table, so that getFontFamily takes the fallback for no code
   of the registry; LOCALE_GROUPS.ALL lists the registry's codes in
   registry order. *)
C10_TablesCoverRegistry ==
  /\ \A i \in 1..Len(SUPPORTED_LOCALES) :
       LET c == SUPPORTED_LOCALES[i].code
       IN  /\ Cardinality({f \in DOMAIN LANGUAGE_FAMILIES :
                             \E k \in 1..Len(LANGUAGE_FAMILIES[f]) :
                               LANGUAGE_FAMILIES[f][k] = c}) = 1
           /\ c \in DOMAIN LOCALE_REGIONS
           /\ c \in DOMAIN fontMap
           /\ (call.op = "getFontFamily" /\ call.arg = c)
                => (call.ret.t = "string" /\ call.ret.v = fontMap[c])
  /\ Len(LOCALE_GROUPS.ALL) = Len(SUPPORTED_LOCALES)
  /\ \A i \in 1..Len(SUPPORTED_LOCALES) :
       LOCALE_GROUPS.ALL[i] = SUPPORTED_LOCALES[i].code

(* The font of 'pt', the last code of the registry, was asked for and
   came from its own entry. *)
C10_Witness ==
  /\ call.op = "getFontFamily"
  /\ call.arg = pt
  /\ call.ret.t = "string"
  /\ call.ret.v = Font_latin
  /\ LOCALE_GROUPS.ALL[10] = pt
====
